---- MODULE Spec2Model ----
(***************************************************************************)
(* Model of the Polaris expression language engine: the Transform algebra  *)
(* (transform.py), the lexer, token cursor and recursive-descent parser    *)
(* (parser.py, polaris_action.py) and the AST evaluator (source/ast.py).   *)
(***************************************************************************)
EXTENDS Integers, Sequences, FiniteSets, TLC

VARIABLES
    ta, tb, tc, pt, prod,       \* Transform operands, a point, the products
    source,                     \* the source text, a sequence of characters
    tokens,                     \* the Tokens cursor: generator rest and current
    consumed,                   \* how many calls consumed a token of the stream
    returned,                   \* what the last call on the cursor gave back
    origin,                     \* what the source text was written from
    phase,                      \* how far the text has been processed
    outcome,                    \* what the tokenizer or the parser gave back
    symtab, ast, result         \* evaluate's arguments and what it gave back

transformVars == <<ta, tb, tc, pt, prod>>
cursorVars == <<tokens, consumed, returned>>
parserVars == <<source, origin, phase, outcome>>
evalVars == <<symtab, ast, result>>
vars == <<ta, tb, tc, pt, prod, source, tokens, consumed, returned,
          origin, phase, outcome, symtab, ast, result>>

(***************************************************************************)
(* Bounds of the model.                                                    *)
(***************************************************************************)
MaxCoord == 1
MaxTurn == 2
MaxLen == 3
MaxOps == 2
MaxPairs == 2
MaxNum == 1

(***************************************************************************)
(* transform.py.  Angles are counted in quarter turns, so that sin and cos *)
(* are exactly 0, 1 or -1; theta is never normalised by the code.          *)
(***************************************************************************)
Transform(x, y, theta) == [x |-> x, y |-> y, theta |-> theta]

from_translation(x, y) == Transform(x, y, 0)

from_rotation(theta) == Transform(0, 0, theta)

sin(theta) == CASE theta % 4 = 0 -> 0
                [] theta % 4 = 1 -> 1
                [] theta % 4 = 2 -> 0
                [] theta % 4 = 3 -> -1

cos(theta) == CASE theta % 4 = 0 -> 1
                [] theta % 4 = 1 -> 0
                [] theta % 4 = 2 -> -1
                [] theta % 4 = 3 -> 0

\* the composition as it would be with the angle of self in place of the
\* angle of transform
matmul_self_angle(self, transform) ==
    LET s == sin(self.theta)
        c == cos(self.theta)
    IN  Transform(transform.x     + c * self.x - s * self.y,
                  transform.y     + s * self.x + c * self.y,
                  transform.theta + self.theta)

\* Transform.__matmul__(self, transform): self @ transform
matmul(self, transform) ==
    LET s == sin(transform.theta)
        c == cos(transform.theta)
    IN  Transform(transform.x     + c * self.x - s * self.y,
                  transform.y     + s * self.x + c * self.y,
                  transform.theta + self.theta)

\* The action of a Transform on a point as the class docstring states it:
\* "A Transform (T) is a translation (X) followed by a rotation (R) ...
\* R(X(p))", the rotation being the map __matmul__ applies to (self.x, self.y).
Rotate(theta, q) ==
    <<cos(theta) * q[1] - sin(theta) * q[2], sin(theta) * q[1] + cos(theta) * q[2]>>

Act(t, q) == Rotate(t.theta, <<q[1] + t.x, q[2] + t.y>>)

(***************************************************************************)
(* parser.py: the lexer.  A text is a sequence of one-character strings,   *)
(* a token the pair <<kind, lexeme>>, the lexeme again a sequence.         *)
(***************************************************************************)
None == <<"None">>

Digit == {"0", "1", "2", "3", "4", "5", "6", "7", "8", "9"}
Letter == {"a", "b", "c", "d", "e", "f", "g", "h", "i", "j", "k", "l", "m",
           "n", "o", "p", "q", "r", "s", "t", "u", "v", "w", "x", "y", "z",
           "E", "R", "C"}
DigitOrUnderscore == Digit \cup {"_"}
Word == Letter \cup Digit \cup {"_"}
Space == {" ", "\t", "\n"}
Operator == {"+", "-", "*", "/", "@"}

RECURSIVE Run(_, _, _)
\* the length of the longest run of characters of class at s[i..]
Run(s, i, class) ==
    IF i <= Len(s) /\ s[i] \in class THEN 1 + Run(s, i + 1, class) ELSE 0

At(s, i, class) == i <= Len(s) /\ s[i] \in class

\* \d[\d_]*(\.\d[\d_]*)?([eE][+\-]?\d[\d_]*)? matched at s[i], a digit
NumberLen(s, i) ==
    LET whole == 1 + Run(s, i + 1, DigitOrUnderscore)
        j     == i + whole
        frac  == IF At(s, j, {"."}) /\ At(s, j + 1, Digit)
                 THEN 2 + Run(s, j + 2, DigitOrUnderscore) ELSE 0
        k     == j + frac
        sign  == IF At(s, k + 1, {"+", "-"}) THEN 1 ELSE 0
        expo  == IF At(s, k, {"e", "E"}) /\ At(s, k + 1 + sign, Digit)
                 THEN 2 + sign + Run(s, k + 2 + sign, DigitOrUnderscore) ELSE 0
    IN  whole + frac + expo

\* the alternative of the regex that matches at s[i], in the order of the list
TokenKind(s, i) ==
    CASE s[i] \in Digit    -> "NUMBER"
      [] s[i] \in Letter   -> "ID"
      [] s[i] \in Operator -> "OP"
      [] s[i] = "("        -> "LEFT"
      [] s[i] = ")"        -> "RIGHT"
      [] s[i] = ","        -> "COMMA"
      [] s[i] = ":"        -> "COLON"
      [] s[i] \in Space    -> "WHITESPACE"
      [] OTHER             -> "ERROR"

TokenLen(s, i) ==
    CASE TokenKind(s, i) = "NUMBER"     -> NumberLen(s, i)
      [] TokenKind(s, i) = "ID"         -> 1 + Run(s, i + 1, Word)
      [] TokenKind(s, i) = "WHITESPACE" -> Run(s, i, Space)
      [] OTHER                          -> 1

RECURSIVE TokenizeFrom(_, _)
TokenizeFrom(s, i) ==
    IF i > Len(s) THEN <<>>
    ELSE <<<<TokenKind(s, i), SubSeq(s, i, i + TokenLen(s, i) - 1)>>>>
             \o TokenizeFrom(s, i + TokenLen(s, i))

\* tokenize(source): every match of the regex is yielded, WHITESPACE included
tokenize(src) == TokenizeFrom(src, 1)

(***************************************************************************)
(* Numbers.  A Python float is modelled by the rational it denotes, kept   *)
(* in lowest terms with a positive denominator.                            *)
(***************************************************************************)
RECURSIVE Gcd(_, _)
Gcd(m, n) == IF n = 0 THEN m ELSE Gcd(n, m % n)

Abs(n) == IF n < 0 THEN -n ELSE n

Rat(n, d) ==
    LET g == Gcd(Abs(n), Abs(d))
        sgn == IF d < 0 THEN -1 ELSE 1
    IN  [num |-> sgn * (n \div g), den |-> sgn * (d \div g)]

Num(n) == Rat(n, 1)

RECURSIVE Pow10(_)
Pow10(n) == IF n = 0 THEN 1 ELSE 10 * Pow10(n - 1)

DigitValue(ch) ==
    CASE ch = "0" -> 0 [] ch = "1" -> 1 [] ch = "2" -> 2 [] ch = "3" -> 3
      [] ch = "4" -> 4 [] ch = "5" -> 5 [] ch = "6" -> 6 [] ch = "7" -> 7
      [] ch = "8" -> 8 [] ch = "9" -> 9

RECURSIVE Decimal(_)
\* the number a sequence of digits denotes
Decimal(ds) ==
    IF ds = <<>> THEN 0
    ELSE 10 * Decimal(SubSeq(ds, 1, Len(ds) - 1)) + DigitValue(ds[Len(ds)])

\* the first index of s holding a character of class, Len(s) + 1 if none
Find(s, class) == 1 + Run(s, 1, {s[i] : i \in 1..Len(s)} \ class)

\* float(value) accepts an underscore only between two digits
float_accepts(value) ==
    \A i \in 1..Len(value) :
        value[i] = "_" =>
            /\ i > 1 /\ value[i - 1] \in Digit
            /\ i < Len(value) /\ value[i + 1] \in Digit

\* the number float(value) gives for a lexeme it accepts
float_value(value) ==
    LET plain    == SelectSeq(value, LAMBDA ch : ch # "_")
        e        == Find(plain, {"e", "E"})
        mantissa == SubSeq(plain, 1, e - 1)
        expo     == SubSeq(plain, e + 1, Len(plain))
        dot      == Find(mantissa, {"."})
        whole    == SubSeq(mantissa, 1, dot - 1)
        frac     == SubSeq(mantissa, dot + 1, Len(mantissa))
        m        == Decimal(whole \o frac)
        x        == CASE expo = <<>>      -> 0
                      [] expo # <<>> /\ Head(expo) = "-" -> -Decimal(Tail(expo))
                      [] expo # <<>> /\ Head(expo) = "+" -> Decimal(Tail(expo))
                      [] OTHER            -> Decimal(expo)
        shift    == x - Len(frac)
    IN  IF shift >= 0 THEN Rat(m * Pow10(shift), 1) ELSE Rat(m, Pow10(-shift))

(***************************************************************************)
(* polaris_action.py: tokenize.  WHITESPACE is dropped and a NUMBER is     *)
(* converted as it is yielded; the generator is run to its end, and ends   *)
(* with the first lexeme that float() does not take.                       *)
(***************************************************************************)
\* polaris_action.py's table of tokens has no '@' among the operators and no
\* COLON: either character is matched by ERROR
polaris_action_kind(t) ==
    IF t[1] = "COLON" \/ (t[1] = "OP" /\ t[2] = <<"@">>)
    THEN <<"ERROR", t[2]>>
    ELSE t

polaris_action_tokenize(src) ==
    LET all == [i \in 1..Len(TokenizeFrom(src, 1)) |->
                   polaris_action_kind(TokenizeFrom(src, 1)[i])]
        bad == {i \in 1..Len(all) : all[i][1] = "NUMBER" /\ ~float_accepts(all[i][2])}
        kept == SelectSeq(all, LAMBDA t : t[1] # "WHITESPACE")
    IN  IF bad # {}
        THEN [tag |-> "raise", exc |-> "ValueError"]
        ELSE [tag |-> "return",
              val |-> [i \in 1..Len(kept) |->
                          IF kept[i][1] = "NUMBER"
                          THEN <<"NUMBER", float_value(kept[i][2])>>
                          ELSE kept[i]]]

(***************************************************************************)
(* parser.py: class Tokens.  The cursor is the pair of the generator's     *)
(* unread tokens and the current token.  Every method is given as the pair *)
(* of what it returns (or raises) and the cursor it leaves.                *)
(***************************************************************************)
Return(v, tk) == [tag |-> "return", val |-> v, tk |-> tk]
Raise(exc, msg, tk) == [tag |-> "raise", exc |-> exc, msg |-> msg, tk |-> tk]

\* next(self.tokens), StopIteration giving None
Advance(tk) ==
    IF tk.tokens # <<>>
    THEN [tokens |-> Tail(tk.tokens), current |-> Head(tk.tokens)]
    ELSE [tokens |-> <<>>, current |-> None]

\* pop as it would be if the cursor were left where it is
pop_without_advance(tk) == Return(tk.current, tk)

\* Tokens.pop
pop(tk) == Return(tk.current, Advance(tk))

\* Tokens.__init__
Tokens(gen) == pop([tokens |-> gen, current |-> None]).tk

\* Tokens.__bool__
bool(tk) == tk.current # None

\* Tokens.peek
peek(tk) == Return(tk.current, tk)

\* Tokens.expect: unpacking None is a TypeError of the interpreter
expect(tk, token_name) ==
    LET r == pop(tk)
    IN  IF r.val = None
        THEN Raise("TypeError", <<"cannot unpack", None>>, r.tk)
        ELSE IF r.val[1] # token_name
             THEN Raise("RuntimeError", <<"Expected", token_name, "found", r.val>>, r.tk)
             ELSE Return(r.val[2], r.tk)

(***************************************************************************)
(* source/ast.py: the nodes of the tree.  NoneTree is Python's None where  *)
(* a tree is expected.                                                     *)
(***************************************************************************)
Constant(value) == [node |-> "Constant", value |-> value]
VariableRead(name) == [node |-> "VariableRead", name |-> name]
UnaryOp(op, rhs) == [node |-> "UnaryOp", op |-> op, rhs |-> rhs]
BinaryOp(lhs, op, rhs) == [node |-> "BinaryOp", lhs |-> lhs, op |-> op, rhs |-> rhs]
FunctionCall(name, args) == [node |-> "FunctionCall", name |-> name, args |-> args]
NoneTree == [node |-> "None"]

\* parser.py: Matcher
Matcher(prefix, expression) == [prefix |-> prefix, expression |-> expression]

(***************************************************************************)
(* parser.py: class Parser.  Each method takes the cursor and gives what   *)
(* it returns or raises, with the cursor it leaves.                        *)
(***************************************************************************)
\* K(r), with r evaluated once however often K uses it
With(r, K(_)) == CHOOSE y \in {K(x) : x \in {r}} : TRUE

\* K applied to what r returned, or r itself if it raised
Then(r, K(_)) == With(r, LAMBDA x : IF x.tag = "raise" THEN x ELSE K(x))

RECURSIVE parse_expression(_)
RECURSIVE parse_term(_)
RECURSIVE parse_factor(_)
RECURSIVE parse_primative(_)
RECURSIVE parse_arguments(_)
RECURSIVE arguments_loop(_, _)
RECURSIVE term_loop(_, _)
RECURSIVE expression_loop(_, _)

\* peek()[0] where peek() is None
NotSubscriptable(tk) == Raise("TypeError", <<"not subscriptable", None>>, tk)

\* the while loop of parse_arguments, args being the list built so far
arguments_loop(args, tk) ==
    IF peek(tk).val = None THEN NotSubscriptable(tk)
    ELSE IF peek(tk).val[1] = "RIGHT" THEN Return(args, tk)
    ELSE Then(parse_expression(tk), LAMBDA e :
             IF peek(e.tk).val = None THEN NotSubscriptable(e.tk)
             ELSE IF peek(e.tk).val[1] # "COMMA"
                  THEN Return(Append(args, e.val), e.tk)
                  ELSE arguments_loop(Append(args, e.val), pop(e.tk).tk))

\* Parser.parse_arguments
parse_arguments(tk) ==
    Then(expect(tk, "LEFT"), LAMBDA l :
        Then(arguments_loop(<<>>, l.tk), LAMBDA a :
            Then(expect(a.tk, "RIGHT"), LAMBDA r : Return(a.val, r.tk))))

\* float(value) of the NUMBER case
number_constant(value, tk) ==
    IF float_accepts(value)
    THEN Return(Constant(float_value(value)), tk)
    ELSE Raise("ValueError", <<"could not convert string to float", value>>, tk)

\* the ('LEFT', _) case
parenthesized(tk) ==
    Then(parse_expression(tk), LAMBDA e :
        Then(expect(e.tk, "RIGHT"), LAMBDA r : Return(e.val, r.tk)))

\* the ('ID', value) case
identifier(value, tk) ==
    IF peek(tk).val # None /\ peek(tk).val[1] = "LEFT"
    THEN Then(parse_arguments(tk), LAMBDA a : Return(FunctionCall(value, a.val), a.tk))
    ELSE Return(VariableRead(value), tk)

\* Parser.parse_primative: no case of the match takes None, and the method
\* then ends without a return statement, which returns None
parse_primative(tk) ==
    With(pop(tk), LAMBDA t :
        CASE t.val = None        -> Return(NoneTree, t.tk)
          [] t.val # None /\ t.val[1] = "NUMBER" -> number_constant(t.val[2], t.tk)
          [] t.val # None /\ t.val[1] = "LEFT"   -> parenthesized(t.tk)
          [] t.val # None /\ t.val[1] = "ID"     -> identifier(t.val[2], t.tk)
          [] OTHER -> Raise("RuntimeError", <<"Unexpected token", t.val>>, t.tk))

\* the token is ('OP', op) for one of the operators ops
IsOp(tok, ops) == tok # None /\ tok[1] = "OP" /\ tok[2] \in {<<op>> : op \in ops}

\* Parser.parse_factor
parse_factor(tk) ==
    IF IsOp(peek(tk).val, {"+", "-"})
    THEN Then(parse_primative(pop(tk).tk), LAMBDA r :
             Return(UnaryOp(peek(tk).val[2][1], r.val), r.tk))
    ELSE parse_primative(tk)

\* the while loop of parse_term
term_loop(factor, tk) ==
    IF IsOp(peek(tk).val, {"*", "/", "@"})
    THEN Then(parse_factor(pop(tk).tk), LAMBDA r :
             With(<<BinaryOp(factor, peek(tk).val[2][1], r.val), r.tk>>, LAMBDA n :
                 term_loop(n[1], n[2])))
    ELSE Return(factor, tk)

\* Parser.parse_term
parse_term(tk) == Then(parse_factor(tk), LAMBDA f : term_loop(f.val, f.tk))

\* the while loop of parse_expression
expression_loop(term, tk) ==
    IF IsOp(peek(tk).val, {"+", "-"})
    THEN Then(parse_term(pop(tk).tk), LAMBDA r :
             With(<<BinaryOp(term, peek(tk).val[2][1], r.val), r.tk>>, LAMBDA n :
                 expression_loop(n[1], n[2])))
    ELSE Return(term, tk)

\* Parser.parse_expression
parse_expression(tk) == Then(parse_term(tk), LAMBDA t : expression_loop(t.val, t.tk))

SCRIPT == <<"s", "c", "r", "i", "p", "t">>
POLARIS == <<"p", "o", "l", "a", "r", "i", "s">>

RECURSIVE matcher_loop(_, _)
\* the while loop of parse_script
matcher_loop(matchers, tk) ==
    IF ~bool(tk) THEN Return(matchers, tk)
    ELSE Then(expect(tk, "ID"), LAMBDA prefix :
             Then(expect(prefix.tk, "COLON"), LAMBDA colon :
                 Then(parse_expression(colon.tk), LAMBDA e :
                     With(<<Append(matchers, Matcher(prefix.val, e.val)), e.tk>>, LAMBDA n :
                         matcher_loop(n[1], n[2])))))

\* Parser.parse_script: the four pops are joined by `and`, so a later one is
\* made only when the earlier comparisons held
parse_script(tk) ==
    LET p1 == pop(tk)
        p2 == pop(p1.tk)
        p3 == pop(p2.tk)
        p4 == pop(p3.tk)
    IN  IF p1.val # <<"ID", SCRIPT>> THEN Return(<<>>, p1.tk)
        ELSE IF p2.val # <<"LEFT", <<"(">>>> THEN Return(<<>>, p2.tk)
        ELSE IF p3.val # <<"ID", POLARIS>> THEN Return(<<>>, p3.tk)
        ELSE IF p4.val # <<"RIGHT", <<")">>>> THEN Return(<<>>, p4.tk)
        ELSE matcher_loop(<<>>, p4.tk)

(***************************************************************************)
(* source/ast.py: evaluate.  A value is a number or a Transform; a symbol  *)
(* table is a dict, as the tests pass, or a SymbolTable, as the signature  *)
(* says.  An exception of the interpreter is given by its class.           *)
(***************************************************************************)
Value(v) == [tag |-> "return", val |-> v]
Exception(exc) == [tag |-> "raise", exc |-> exc]

IsNumber(v) == "num" \in DOMAIN v

Variable(value) == [class |-> "Variable", value |-> value]
Function(func) == [class |-> "Function", func |-> func]

Dict(table) == [type |-> "dict", table |-> table]
NoScope == [type |-> "None"]
SymbolTable(scope, table) == [type |-> "SymbolTable", scope |-> scope, table |-> table]

\* symbols[name]: the SymbolTable dataclass defines no __getitem__
getitem(symbols, name) ==
    CASE symbols.type = "dict" ->
            IF name \in DOMAIN symbols.table
            THEN Value(symbols.table[name]) ELSE Exception("KeyError")
      [] OTHER -> Exception("TypeError")

\* binding.value and binding.func
getattr(binding, attr) ==
    IF attr \in DOMAIN binding THEN Value(binding[attr]) ELSE Exception("AttributeError")

Negate(x) == Rat(-x.num, x.den)
Add(x, y) == Rat(x.num * y.den + y.num * x.den, x.den * y.den)
Subtract(x, y) == Add(x, Negate(y))
Multiply(x, y) == Rat(x.num * y.num, x.den * y.den)

\* x / y as IEEE arithmetic has it: a zero divisor gives an infinity or a NaN
divide_giving_infinity(x, y) ==
    IF y.num = 0 THEN Value([num |-> x.num, den |-> 0])
    ELSE Value(Rat(x.num * y.den, x.den * y.num))

\* x / y on Python numbers
divide(x, y) ==
    IF y.num = 0 THEN Exception("ZeroDivisionError")
    ELSE Value(Rat(x.num * y.den, x.den * y.num))

\* the operator op applied to the values of the operands
binary(x, op, y) ==
    CASE op = "@" -> IF IsNumber(x) THEN Exception("TypeError")
                     ELSE IF IsNumber(y) THEN Exception("AttributeError")
                     ELSE Value(matmul(x, y))
      [] op # "@" /\ ~(IsNumber(x) /\ IsNumber(y)) -> Exception("TypeError")
      [] op = "+" /\ IsNumber(x) /\ IsNumber(y) -> Value(Add(x, y))
      [] op = "-" /\ IsNumber(x) /\ IsNumber(y) -> Value(Subtract(x, y))
      [] op = "*" /\ IsNumber(x) /\ IsNumber(y) -> Value(Multiply(x, y))
      [] op = "/" /\ IsNumber(x) /\ IsNumber(y) -> divide(x, y)

unary(op, x) ==
    IF ~IsNumber(x) THEN Exception("TypeError")
    ELSE IF op = "-" THEN Value(Negate(x)) ELSE Value(x)

RECURSIVE evaluate(_, _)
\* the function of the tests: lambda s, a: ast.evaluate(s, a)
call(func, symbols, args) ==
    IF Len(args) # 1 THEN Exception("TypeError") ELSE evaluate(symbols, args[1])

evaluate(symbols, tree) ==
    CASE tree.node = "UnaryOp" /\ tree.op \in {"+", "-"} ->
            Then(evaluate(symbols, tree.rhs), LAMBDA r : unary(tree.op, r.val))
      [] tree.node = "BinaryOp" /\ tree.op \in {"+", "-", "*", "@", "/"} ->
            Then(evaluate(symbols, tree.lhs), LAMBDA l :
                Then(evaluate(symbols, tree.rhs), LAMBDA r :
                    binary(l.val, tree.op, r.val)))
      [] tree.node = "FunctionCall" ->
            Then(getitem(symbols, tree.name), LAMBDA b :
                Then(getattr(b.val, "func"), LAMBDA f :
                    call(f.val, symbols, tree.args)))
      [] tree.node = "VariableRead" ->
            Then(getitem(symbols, tree.name), LAMBDA b : getattr(b.val, "value"))
      [] tree.node = "Constant" -> Value(tree.value)
      [] OTHER -> Exception("RuntimeError")

(***************************************************************************)
(* The inputs.  A source text is any text of at most MaxLen characters of  *)
(* Alphabet, a text of the documentation and the tests, or the text of an  *)
(* expression; a script is given by its stream of tokens.                  *)
(***************************************************************************)
Alphabet == {"2", "0", "_", "+", "/", "(", ")", " ", "f"}

BoundedTexts == UNION {[1..n -> Alphabet] : n \in 0..MaxLen}

ExampleTexts14 == <<"2", " ", "+", " ", "3", " ", "*", " ", "4">>
ExampleTexts20 == <<"(", "2", " ", "+", " ", "3", ")", " ", "*", " ", "4">>
ExampleTextsMinus5 == <<"2", " ", "-", " ", "3", " ", "-", " ", "4">>
ExampleNumber == <<"1", "_", "0", "0", "0", ".", "5", "e", "2">>

ExampleTexts ==
    { ExampleTexts14, ExampleTexts20, ExampleTextsMinus5, ExampleNumber,
      <<"f", "(", "1">>,
      <<"f", "(", "1", ",", "x", ")">>,
      <<"f", "(", "1", ",", ")">>,
      <<"2", "@", "x", "*", "-", "3">>,
      <<"-">>,
      <<"$">> }

Sources == BoundedTexts \cup ExampleTexts

\* An expression as it is meant: a numeral, a name, a call, a signed
\* expression or two expressions joined by a binary operator.
NumeralOf(lexeme) == [kind |-> "numeral", lexeme |-> lexeme]
NameOf(name) == [kind |-> "name", name |-> name]
CallOf(name, args) == [kind |-> "call", name |-> name, args |-> args]
SignOf(op, e) == [kind |-> "sign", op |-> op, e |-> e]
BinOf(l, op, r) == [kind |-> "bin", l |-> l, op |-> op, r |-> r]

Numerals == {NumeralOf(<<d>>) : d \in {"2", "3", "4"}}

RECURSIVE ExprsOfSize(_)
\* the arithmetic expressions with exactly k operators
ExprsOfSize(k) ==
    IF k = 0 THEN Numerals
    ELSE {SignOf(op, e) : op \in {"+", "-"}, e \in ExprsOfSize(k - 1)}
         \cup UNION {{BinOf(l, op, r) : l \in ExprsOfSize(i),
                                        op \in {"+", "-", "*", "/"},
                                        r \in ExprsOfSize(k - 1 - i)} : i \in 0..(k - 1)}

\* the arithmetic expressions with at most n operators
ExprsUpTo(n) == UNION {ExprsOfSize(k) : k \in 0..n}

\* how tightly the outermost construct of e binds
Prec(e) ==
    CASE e.kind = "bin" /\ e.op \in {"+", "-"} -> 1
      [] e.kind = "bin" /\ e.op \in {"*", "/", "@"} -> 2
      [] e.kind = "sign" -> 3
      [] OTHER -> 4

RECURSIVE Render(_, _)
RECURSIVE RenderArgs(_, _)
\* e in parentheses where e binds less tightly than its place needs
Paren(e, need, spaced) ==
    IF Prec(e) < need THEN <<"(">> \o Render(e, spaced) \o <<")">>
    ELSE Render(e, spaced)

RenderArgs(args, spaced) ==
    IF args = <<>> THEN <<>>
    ELSE IF Len(args) = 1 THEN Render(args[1], spaced)
    ELSE Render(args[1], spaced) \o <<",">> \o RenderArgs(Tail(args), spaced)

\* the text of e, with one blank on each side of a binary operator if spaced
Render(e, spaced) ==
    CASE e.kind = "numeral" -> e.lexeme
      [] e.kind = "name" -> e.name
      [] e.kind = "call" -> e.name \o <<"(">> \o RenderArgs(e.args, spaced) \o <<")">>
      [] e.kind = "sign" -> <<e.op>> \o Paren(e.e, 4, spaced)
      [] e.kind = "bin" ->
            Paren(e.l, Prec(e), spaced)
                \o (IF spaced THEN <<" ", e.op, " ">> ELSE <<e.op>>)
                \o Paren(e.r, Prec(e) + 1, spaced)

\* the expressions of the matchers of a script
PairExprs ==
    { NumeralOf(<<"2">>),
      NumeralOf(<<"2", "_">>),
      NameOf(<<"x">>),
      CallOf(<<"f">>, <<>>),
      CallOf(<<"d", "e", "g">>, <<NumeralOf(<<"9", "0">>)>>),
      CallOf(<<"m", "m">>, <<NumeralOf(<<"1">>), NameOf(<<"x">>)>>),
      SignOf("-", NameOf(<<"x">>)),
      BinOf(NumeralOf(<<"2">>), "+", NumeralOf(<<"3">>)),
      BinOf(NameOf(<<"x">>), "@", CallOf(<<"f">>, <<NumeralOf(<<"4">>)>>)) }

Pairs == {[prefix |-> q, expr |-> e] : q \in {<<"R">>, <<"C", "1">>}, e \in PairExprs}

Header == << <<"ID", SCRIPT>>, <<"LEFT", <<"(">>>>, <<"ID", POLARIS>>, <<"RIGHT", <<")">>>> >>

\* the header, and streams that do not begin with it: a header cut short,
\* and a header with one token taken for another
Heads ==
    {Header}
        \cup {SubSeq(Header, 1, k) : k \in 0..3}
        \cup {[Header EXCEPT ![k] = <<"ID", <<"x">>>>] : k \in 1..4}
        \cup {[Header EXCEPT ![k] = <<"NUMBER", <<"2">>>>] : k \in 1..4}

\* what is parsed: a text, the text of an arithmetic expression, or the tokens
\* of a script
OriginsOf(kind) ==
    CASE kind = "text" -> {[kind |-> "text", text |-> t] : t \in Sources}
      [] kind = "expression" ->
            {[kind |-> "expression", expr |-> e, spaced |-> b] :
                e \in ExprsUpTo(MaxOps), b \in BOOLEAN}
      [] kind = "script" ->
            {[kind |-> "script", head |-> h, pairs |-> ps] :
                h \in Heads, ps \in UNION {[1..n -> Pairs] : n \in 0..MaxPairs}}

RECURSIVE PairTokens(_)
\* the tokens ID COLON expression of each pair in turn
PairTokens(ps) ==
    IF ps = <<>> THEN <<>>
    ELSE << <<"ID", ps[1].prefix>>, <<"COLON", <<":">>>> >>
             \o tokenize(Render(ps[1].expr, FALSE))
             \o PairTokens(Tail(ps))

TextOf(o) ==
    CASE o.kind = "text" -> o.text
      [] o.kind = "expression" -> Render(o.expr, o.spaced)
      [] o.kind = "script" -> <<>>

\* the stream of tokens handed to Tokens
Stream ==
    IF origin.kind = "script" THEN origin.head \o PairTokens(origin.pairs)
    ELSE tokenize(source)

(***************************************************************************)
(* The states in which a part of the program is not in use.                *)
(***************************************************************************)
NoCall == [op |-> "none"]
NoProduct == [done |-> FALSE]
NoPoint == <<0, 0>>
NoOutcome == [tag |-> "none"]
NoTree == [node |-> "unset"]
NotEvaluated == [tag |-> "none"]
EmptyDict == Dict(<<>>)

IdleTransform ==
    /\ ta = Transform(0, 0, 0)
    /\ tb = Transform(0, 0, 0)
    /\ tc = Transform(0, 0, 0)
    /\ pt = NoPoint
    /\ prod = NoProduct

IdleCursor ==
    /\ tokens = Tokens(<<>>)
    /\ consumed = 0
    /\ returned = NoCall

IdleParser ==
    /\ source = <<>>
    /\ origin = [kind |-> "text", text |-> <<>>]
    /\ phase = "idle"
    /\ outcome = NoOutcome

IdleEval ==
    /\ symtab = EmptyDict
    /\ ast = NoTree
    /\ result = NotEvaluated

(***************************************************************************)
(* Transforms: two operands are given, a third is composed with them, and  *)
(* the Transforms are applied to a point.                                  *)
(***************************************************************************)
Coords == 0..MaxCoord
Turns == -1..MaxTurn
Transforms ==
    {Transform(x, y, th) : x \in Coords, y \in Coords, th \in Turns}
        \cup {from_translation(10, 5), from_rotation(1)}
Points == {<<x, y>> : x \in Coords, y \in Coords}

InitTransform ==
    /\ IdleCursor /\ IdleParser /\ IdleEval
    /\ ta \in Transforms
    /\ tb \in Transforms
    /\ tc = Transform(0, 0, 0)
    /\ pt = NoPoint
    /\ prod = NoProduct

\* a @ (b @ c) and (a @ b) @ c for a third operand c
Compose(c) ==
    /\ ~prod.done
    /\ tc' = c
    /\ prod' = [done  |-> TRUE,
                ab    |-> matmul(ta, tb),
                left  |-> matmul(ta, matmul(tb, c)),
                right |-> matmul(matmul(ta, tb), c)]
    /\ UNCHANGED <<ta, tb, pt>>
    /\ UNCHANGED <<cursorVars, parserVars, evalVars>>

\* choose the point that the Transforms are applied to
ChoosePoint(q) ==
    /\ prod.done
    /\ pt' = q
    /\ UNCHANGED <<ta, tb, tc, prod>>
    /\ UNCHANGED <<cursorVars, parserVars, evalVars>>

NextTransform ==
    \/ \E c \in Transforms : Compose(c)
    \/ \E q \in Points : ChoosePoint(q)

SpecTransform == InitTransform /\ [][NextTransform]_vars

(***************************************************************************)
(* The cursor: Tokens(tokenize(source)), then any calls of its methods.    *)
(***************************************************************************)
InitCursor ==
    /\ IdleTransform /\ IdleEval
    /\ source \in Sources
    /\ origin = [kind |-> "text", text |-> source]
    /\ phase = "cursor"
    /\ outcome = NoOutcome
    /\ tokens = Tokens(tokenize(source))
    /\ consumed = 0
    /\ returned = NoCall

\* the number of consuming calls after one more of them on a stream of n tokens
Consume(k, n) == IF k < n THEN k + 1 ELSE k

\* a call of tokens.peek()
Peek ==
    /\ returned' = [op |-> "peek", before |-> peek(tokens).val, result |-> peek(tokens)]
    /\ tokens' = peek(tokens).tk
    /\ UNCHANGED consumed
    /\ UNCHANGED <<transformVars, parserVars, evalVars>>

\* a call of tokens.pop()
Pop ==
    /\ returned' = [op |-> "pop", before |-> peek(tokens).val, result |-> pop(tokens)]
    /\ tokens' = pop(tokens).tk
    /\ consumed' = Consume(consumed, Len(Stream))
    /\ UNCHANGED <<transformVars, parserVars, evalVars>>

\* a call of tokens.expect(token_name)
Expect(token_name) ==
    /\ returned' = [op |-> "expect", before |-> peek(tokens).val,
                    result |-> expect(tokens, token_name)]
    /\ tokens' = expect(tokens, token_name).tk
    /\ consumed' = Consume(consumed, Len(Stream))
    /\ UNCHANGED <<transformVars, parserVars, evalVars>>

NextCursor ==
    \/ Peek
    \/ Pop
    \/ \E token_name \in {"NUMBER", "OP", "LEFT", "RIGHT"} : Expect(token_name)

SpecCursor == InitCursor /\ [][NextCursor]_vars

(***************************************************************************)
(* The parser: a text or a stream is parsed as an expression, and the tree *)
(* evaluated as the tests do, with an empty dict of symbols, or parsed as  *)
(* a script; polaris_action.py's tokenizer is run over the text.           *)
(***************************************************************************)
InitParser ==
    /\ IdleTransform /\ IdleCursor /\ IdleEval
    /\ \E kind \in {"text", "expression", "script"} : origin \in OriginsOf(kind)
    /\ source = TextOf(origin)
    /\ phase = "source"
    /\ outcome = NoOutcome

\* Parser(Tokens(tokenize(source))).parse_expression()
ParseExpression ==
    /\ phase = "source"
    /\ origin.kind \in {"text", "expression"}
    /\ outcome' = parse_expression(Tokens(Stream))
    /\ ast' = IF outcome'.tag = "return" THEN outcome'.val ELSE ast
    /\ phase' = "parsed"
    /\ UNCHANGED <<source, origin, symtab, result>>
    /\ UNCHANGED <<transformVars, cursorVars>>

\* Parser(Tokens(...)).parse_script()
ParseScript ==
    /\ phase = "source"
    /\ origin.kind \in {"text", "script"}
    /\ outcome' = parse_script(Tokens(Stream))
    /\ phase' = "script"
    /\ UNCHANGED <<source, origin>>
    /\ UNCHANGED <<transformVars, cursorVars, evalVars>>

\* polaris_action.py: the generator tokenize(source) run to its end
TokenizeAction ==
    /\ phase = "source"
    /\ origin.kind = "text"
    /\ outcome' = polaris_action_tokenize(source)
    /\ phase' = "tokenized"
    /\ UNCHANGED <<source, origin>>
    /\ UNCHANGED <<transformVars, cursorVars, evalVars>>

\* evaluate(symbols, tree)
Evaluate ==
    /\ ast # NoTree
    /\ result = NotEvaluated
    /\ result' = evaluate(symtab, ast)
    /\ phase' = "evaluated"
    /\ UNCHANGED <<symtab, ast, source, origin, outcome>>
    /\ UNCHANGED <<transformVars, cursorVars>>

NextParser ==
    \/ ParseExpression
    \/ ParseScript
    \/ TokenizeAction
    \/ Evaluate

SpecParser == InitParser /\ [][NextParser]_vars

(***************************************************************************)
(* The evaluator: evaluate(symbols, tree) for a tree and a symbol table.   *)
(***************************************************************************)
Names == {<<"x">>, <<"y">>}

NumberBindings == {Variable(Num(v)) : v \in 0..1}
Bindings == NumberBindings \cup {Variable(Transform(1, 0, 1)), Function("lambda")}

TablesOf(bindings) == UNION {[D -> bindings] : D \in SUBSET Names}

SymbolTables ==
    {Dict(t) : t \in TablesOf(Bindings)}
        \cup {SymbolTable(NoScope, t) : t \in TablesOf(NumberBindings)}
        \cup {SymbolTable(SymbolTable(NoScope, outer), inner) :
                 outer \in TablesOf(NumberBindings), inner \in TablesOf(NumberBindings)}

Leaves == {Constant(Num(v)) : v \in 0..MaxNum} \cup {VariableRead(n) : n \in Names}

Signed == {UnaryOp(op, l) : op \in {"+", "-"}, l \in Leaves}

Operands ==
    Leaves \cup Signed
        \cup {BinaryOp(l, op, r) : l \in Leaves, op \in {"+", "-", "*", "/", "@"}, r \in Leaves}

Trees ==
    Operands
        \cup {BinaryOp(l, "/", r) : l \in Leaves \cup Signed, r \in Operands}
        \cup {FunctionCall(n, args) : n \in Names,
                                      args \in {<<>>, <<Constant(Num(1))>>,
                                                <<VariableRead(<<"x">>), Constant(Num(1))>>}}
        \cup {NoneTree, UnaryOp("-", NoneTree), UnaryOp("!", Constant(Num(1))),
              BinaryOp(Constant(Num(1)), "+", NoneTree)}

InitEval ==
    /\ IdleTransform /\ IdleCursor /\ IdleParser
    /\ symtab \in SymbolTables
    /\ ast \in Trees
    /\ result = NotEvaluated

NextEval == Evaluate

SpecEval == InitEval /\ [][NextEval]_vars

(***************************************************************************)
(* What the texts and the streams are meant to give.                       *)
(***************************************************************************)
\* the number a numeral denotes, its underscores being separators of digits
NumeralValue(lexeme) == Num(Decimal(SelectSeq(lexeme, LAMBDA ch : ch # "_")))

RECURSIVE AstOf(_)
\* the tree of an expression
AstOf(e) ==
    CASE e.kind = "numeral" -> Constant(NumeralValue(e.lexeme))
      [] e.kind = "name" -> VariableRead(e.name)
      [] e.kind = "call" -> FunctionCall(e.name, [i \in 1..Len(e.args) |-> AstOf(e.args[i])])
      [] e.kind = "sign" -> UnaryOp(e.op, AstOf(e.e))
      [] e.kind = "bin" -> BinaryOp(AstOf(e.l), e.op, AstOf(e.r))

Undefined == [tag |-> "undefined"]

RECURSIVE ReferenceValue(_)
\* the value of an arithmetic expression, each operator applied to the
\* values of the two expressions it joins; Undefined where a divisor is zero
ReferenceValue(e) ==
    CASE e.kind = "numeral" -> Value(NumeralValue(e.lexeme))
      [] e.kind = "sign" ->
            With(ReferenceValue(e.e), LAMBDA v :
                IF v.tag # "return" THEN Undefined
                ELSE IF e.op = "-" THEN Value(Negate(v.val)) ELSE v)
      [] e.kind = "bin" ->
            With(<<ReferenceValue(e.l), ReferenceValue(e.r)>>, LAMBDA v :
                IF v[1].tag # "return" \/ v[2].tag # "return" THEN Undefined
                ELSE CASE e.op = "+" -> Value(Add(v[1].val, v[2].val))
                       [] e.op = "-" -> Value(Subtract(v[1].val, v[2].val))
                       [] e.op = "*" -> Value(Multiply(v[1].val, v[2].val))
                       [] e.op = "/" -> IF v[2].val.num = 0 THEN Undefined
                                        ELSE Value(Rat(v[1].val.num * v[2].val.den,
                                                       v[1].val.den * v[2].val.num)))

\* The grammar of expressions over a stream ts: each operator gives the index
\* after the phrase that starts at index i, or 0 if no such phrase starts there.
KindAt(ts, i) == IF i >= 1 /\ i <= Len(ts) THEN ts[i][1] ELSE "END"
OpAt(ts, i, ops) == KindAt(ts, i) = "OP" /\ ts[i][2] \in {<<op>> : op \in ops}

\* K(j) unless j is 0
Next0(j, K(_)) == With(j, LAMBDA x : IF x = 0 THEN 0 ELSE K(x))

RECURSIVE GExpression(_, _)
RECURSIVE GExpressionRest(_, _)
RECURSIVE GTerm(_, _)
RECURSIVE GTermRest(_, _)
RECURSIVE GFactor(_, _)
RECURSIVE GPrimary(_, _)
RECURSIVE GArgumentsRest(_, _)

\* arglist := [] | expression (',' expression)*, then ')'
GArgumentsRest(ts, j) ==
    CASE KindAt(ts, j) = "COMMA" ->
            Next0(GExpression(ts, j + 1), LAMBDA k : GArgumentsRest(ts, k))
      [] KindAt(ts, j) = "RIGHT" -> j + 1
      [] OTHER -> 0

\* primary := NUMBER | '(' expression ')' | ID ['(' arglist ')']
GPrimary(ts, i) ==
    CASE KindAt(ts, i) = "NUMBER" -> i + 1
      [] KindAt(ts, i) = "LEFT" ->
            Next0(GExpression(ts, i + 1), LAMBDA j :
                IF KindAt(ts, j) = "RIGHT" THEN j + 1 ELSE 0)
      [] KindAt(ts, i) = "ID" ->
            IF KindAt(ts, i + 1) # "LEFT" THEN i + 1
            ELSE IF KindAt(ts, i + 2) = "RIGHT" THEN i + 3
            ELSE Next0(GExpression(ts, i + 2), LAMBDA j : GArgumentsRest(ts, j))
      [] OTHER -> 0

\* factor := ('+'|'-')? primary
GFactor(ts, i) ==
    IF OpAt(ts, i, {"+", "-"}) THEN GPrimary(ts, i + 1) ELSE GPrimary(ts, i)

GTermRest(ts, j) ==
    IF OpAt(ts, j, {"*", "/", "@"})
    THEN Next0(GFactor(ts, j + 1), LAMBDA k : GTermRest(ts, k))
    ELSE j

\* term := factor (('*'|'/'|'@') factor)*
GTerm(ts, i) == Next0(GFactor(ts, i), LAMBDA j : GTermRest(ts, j))

GExpressionRest(ts, j) ==
    IF OpAt(ts, j, {"+", "-"})
    THEN Next0(GTerm(ts, j + 1), LAMBDA k : GExpressionRest(ts, k))
    ELSE j

\* expression := term (('+'|'-') term)*
GExpression(ts, i) == Next0(GTerm(ts, i), LAMBDA j : GExpressionRest(ts, j))

\* the stream is one complete expression, no token left over
Complete(ts) == GExpression(ts, 1) = Len(ts) + 1

RECURSIVE HasNone(_)
\* a tree with None in the place of an operand or an argument
HasNone(t) ==
    CASE t.node = "None" -> TRUE
      [] t.node = "UnaryOp" -> HasNone(t.rhs)
      [] t.node = "BinaryOp" -> HasNone(t.lhs) \/ HasNone(t.rhs)
      [] t.node = "FunctionCall" -> \E i \in 1..Len(t.args) : HasNone(t.args[i])
      [] OTHER -> FALSE

\* the stream begins with ID("script") LEFT ID("polaris") RIGHT
BeginsWithHeader(ts) == Len(ts) >= 4 /\ SubSeq(ts, 1, 4) = Header

RECURSIVE chained_lookup(_, _)
\* the binding of name in the table itself, else in its enclosing tables
chained_lookup(symbols, name) ==
    CASE symbols.type = "None" -> Exception("unresolved")
      [] symbols.type # "None" /\ name \in DOMAIN symbols.table
            -> Value(symbols.table[name])
      [] OTHER -> IF symbols.type = "dict" THEN Exception("unresolved")
                  ELSE chained_lookup(symbols.scope, name)

(***************************************************************************)
(* Properties.                                                             *)
(***************************************************************************)
SameTransform(s, t) == s.x = t.x /\ s.y = t.y /\ s.theta = t.theta

\* C1: composition with @ is associative: for all Transforms a, b and c,
\* a @ (b @ c) and (a @ b) @ c have equal x, y and theta.
C1_Associative == prod.done => SameTransform(prod.left, prod.right)

\* three Transforms that all translate and all rotate have been composed
C1_Witness ==
    /\ prod.done
    /\ ta.theta % 4 = 1 /\ tb.theta % 4 = 3 /\ tc.theta % 4 = 2
    /\ ta.x # 0 /\ tb.y # 0 /\ tc.x # 0
    /\ prod.left = matmul(ta, matmul(tb, tc))

\* C2: in a @ b the right-hand operand happens first: with the action of a
\* Transform on a point that the docstrings give (translate, then rotate),
\* a @ b acts as b followed by a; and from_translation(10, 5) @
\* from_rotation(quarter turn) is Transform(-5, 10, quarter turn).
C2_RhsHappensFirst ==
    /\ prod.done => Act(prod.ab, pt) = Act(ta, Act(tb, pt))
    /\ (prod.done /\ ta = from_translation(10, 5) /\ tb = from_rotation(1))
           => prod.ab = Transform(-5, 10, 1)

\* the worked example of C2 on its own: it holds of __matmul__
TranslationThenRotationExample ==
    (prod.done /\ ta = from_translation(10, 5) /\ tb = from_rotation(1))
        => prod.ab = Transform(-5, 10, 1)

\* C3: an arithmetic text evaluates to the value its precedence and its
\* left-to-right grouping give: "2 + 3 * 4" to 14, "(2 + 3) * 4" to 20 and
\* "2 - 3 - 4" to -5, and likewise every expression written with or without
\* parentheses.
C3_Precedence ==
    /\ (origin.kind = "expression" /\ ReferenceValue(origin.expr).tag = "return") =>
          /\ phase \in {"parsed", "evaluated"} =>
                (outcome.tag = "return" /\ ast = AstOf(origin.expr))
          /\ phase = "evaluated" => result = ReferenceValue(origin.expr)
    /\ (phase = "evaluated" /\ source = ExampleTexts14) => result = Value(Num(14))
    /\ (phase = "evaluated" /\ source = ExampleTexts20) => result = Value(Num(20))
    /\ (phase = "evaluated" /\ source = ExampleTextsMinus5) => result = Value(Num(0 - 5))

\* the precedence of C3 for the texts written without blanks: it holds
PrecedenceWithoutBlanks ==
    (origin.kind = "expression" /\ ~origin.spaced
        /\ ReferenceValue(origin.expr).tag = "return") =>
          /\ phase \in {"parsed", "evaluated"} =>
                (outcome.tag = "return" /\ ast = AstOf(origin.expr))
          /\ phase = "evaluated" => result = ReferenceValue(origin.expr)

\* the token the cursor stands at after k consuming calls, None past the end
StreamAt(k) == IF k < Len(Stream) THEN Stream[k + 1] ELSE None

\* C4: no WHITESPACE token reaches the Parser: the cursor never hands one
\* out, neither by peek nor by pop nor by expect.
C4_NoWhitespaceToken ==
    (returned.op # "none" /\ returned.result.tag = "return"
        /\ returned.result.val # None)
           => returned.result.val[1] # "WHITESPACE"

\* C5: a stream that is not one complete expression makes parse_expression
\* raise the expected-versus-found RuntimeError, and no tree that is returned
\* has None in the place of an operand or an argument.
C5_FailsWithoutPartialTree ==
    (phase \in {"parsed", "evaluated"} /\ origin.kind \in {"text", "expression"}) =>
        /\ ~Complete(Stream) => (outcome.tag = "raise" /\ outcome.exc = "RuntimeError")
        /\ outcome.tag = "return" => ~HasNone(outcome.val)

\* the division lhs / rhs of two numbers with rhs zero has been evaluated
DividedByZero ==
    /\ result # NotEvaluated
    /\ ast.node = "BinaryOp" /\ ast.op = "/"
    /\ evaluate(symtab, ast.lhs).tag = "return"
    /\ evaluate(symtab, ast.rhs).tag = "return"
    /\ IsNumber(evaluate(symtab, ast.lhs).val)
    /\ IsNumber(evaluate(symtab, ast.rhs).val)
    /\ evaluate(symtab, ast.rhs).val.num = 0

\* C6, as the code has it: division by zero is not guarded and fails:
\* evaluating lhs / rhs with rhs zero ends in ZeroDivisionError, no value
\* is returned.
C6_DivisionByZeroRaises ==
    DividedByZero => result = Exception("ZeroDivisionError")

\* a division by a zero that is itself computed has been evaluated
C6_Witness ==
    /\ DividedByZero
    /\ ast.rhs.node = "BinaryOp"
    /\ ast.lhs.node = "VariableRead"
    /\ symtab.type = "dict"
    /\ result.tag = "raise"

\* C6, as stated: division by zero does not fail, evaluate returns a value
\* (an infinity or a NaN).
C6_DivisionByZeroReturns ==
    DividedByZero => result.tag = "return"

\* C7: parse_script returns the empty list for a stream that does not begin
\* with the header, and for the header followed by n pairs ID COLON
\* expression it returns the n Matchers in order and consumes the stream.
C7_Script ==
    phase = "script" =>
        /\ ~BeginsWithHeader(Stream) => (outcome.tag = "return" /\ outcome.val = <<>>)
        /\ (origin.kind = "script" /\ origin.head = Header) =>
              /\ outcome.tag = "return"
              /\ outcome.val = [k \in 1..Len(origin.pairs) |->
                                   Matcher(origin.pairs[k].prefix,
                                           AstOf(origin.pairs[k].expr))]
              /\ ~bool(outcome.tk)

\* every NUMBER lexeme of the stream is one that float converts
NumbersConvert ==
    \A i \in 1..Len(Stream) : Stream[i][1] = "NUMBER" => float_accepts(Stream[i][2])

\* C7 for the streams whose NUMBER lexemes float converts: it holds
ScriptOfConvertibleNumbers ==
    (phase = "script" /\ NumbersConvert) =>
        /\ ~BeginsWithHeader(Stream) => (outcome.tag = "return" /\ outcome.val = <<>>)
        /\ (origin.kind = "script" /\ origin.head = Header) =>
              /\ outcome.tag = "return"
              /\ outcome.val = [k \in 1..Len(origin.pairs) |->
                                   Matcher(origin.pairs[k].prefix,
                                           AstOf(origin.pairs[k].expr))]
              /\ ~bool(outcome.tk)

\* C8: a name is looked up in the table itself and then in its enclosing
\* tables: evaluating VariableRead(name) gives the value of the nearest
\* binding, and fails only if no table of the chain binds the name.
C8_ChainedLookup ==
    (result # NotEvaluated /\ ast.node = "VariableRead") =>
        IF chained_lookup(symtab, ast.name).tag = "raise"
        THEN result.tag = "raise"
        ELSE chained_lookup(symtab, ast.name).val.class = "Variable"
                => result = Value(chained_lookup(symtab, ast.name).val.value)

\* the lookup of C8 in a plain dict: it holds
DictLookup ==
    (result # NotEvaluated /\ ast.node = "VariableRead" /\ symtab.type = "dict") =>
        IF ast.name \in DOMAIN symtab.table
        THEN symtab.table[ast.name].class = "Variable"
                => result = Value(symtab.table[ast.name].value)
        ELSE result = Exception("KeyError")

\* C9: the conversion of a NUMBER lexeme cannot fail: neither the tokenizer
\* of polaris_action.py nor the Parser ends in ValueError, and "1_000.5e2"
\* is the constant 100050.
C9_NumberConversionCannotFail ==
    /\ phase = "tokenized" => outcome.tag = "return"
    /\ phase \in {"parsed", "script"}
           => ~(outcome.tag = "raise" /\ outcome.exc = "ValueError")
    /\ (phase = "parsed" /\ source = ExampleNumber)
           => (outcome.tag = "return" /\ outcome.val = Constant(Num(100050)))

\* the worked example of C9 on its own: it holds
NumberExample ==
    /\ (phase = "parsed" /\ source = ExampleNumber)
           => (outcome.tag = "return" /\ outcome.val = Constant(Num(100050)))
    /\ (phase = "tokenized" /\ source = ExampleNumber)
           => (outcome.tag = "return" /\ outcome.val = << <<"NUMBER", Num(100050)>> >>)

\* C10: the cursor always holds the next unconsumed token, or None at the
\* end: peek returns it and consumes nothing, pop returns it and advances by
\* one, the cursor is true exactly while a token is left, and at the end
\* peek and pop return None and go on returning it.
C10_Lookahead ==
    /\ peek(tokens).val = StreamAt(consumed)
    /\ pop(tokens).val = StreamAt(consumed)
    /\ peek(pop(tokens).tk).val = StreamAt(Consume(consumed, Len(Stream)))
    /\ peek(peek(tokens).tk).val = StreamAt(consumed)
    /\ bool(tokens) <=> consumed < Len(Stream)
    /\ returned.op \in {"peek", "pop"} =>
          /\ returned.result.tag = "return"
          /\ returned.result.val = returned.before
    /\ (returned.op \in {"peek", "pop"} /\ returned.before = None) =>
          /\ returned.result.val = None
          /\ peek(tokens).val = None

\* two tokens of three have been popped and the third is still held
C10_Witness ==
    /\ returned.op = "pop"
    /\ returned.result.val # None
    /\ consumed = 2
    /\ Len(Stream) = 3
    /\ bool(tokens)
    /\ peek(tokens).val = Stream[3]

====
